---- MODULE Spec2Model ----
(***************************************************************************)
(* State-machine model of security/secure_code_executor.py:                *)
(* SecureCodeExecutor.execute_code and the components it is built from.    *)
(*                                                                         *)
(* A code text is a sequence of items.  An item is either one blank        *)
(* character (space or newline) or one complete statement line of the      *)
(* snippet.  Names and mapping keys are sequences of characters, so that   *)
(* str.strip() and str.startswith() are computed, not assumed.             *)
(***************************************************************************)
EXTENDS Integers, Sequences, FiniteSets, TLC

\* ---------------------------------------------------------------- bounds
\* total number of execute_code calls started in one behaviour
MaxCalls == 2
\* cap of the per-call elapsed-time counter (seconds)
MaxElapsed == 4

\* the callers (threads of the host application) sharing one engine
Callers == {"t1", "t2"}

\* ------------------------------------------------------- names and values
X == <<"x">>
PRIVATE_T == <<"_", "t">>
RESULT == <<"r", "e", "s", "u", "l", "t">>
DF == <<"d", "f">>
Names == {X, PRIVATE_T, RESULT, DF}

Absent == "<absent>"
None == "None"
\* "tbl" is a table whose only column is 'a'; "tbl_pad" one whose only
\* column is ' a' (a padded column name)
Values == {"v1", "v4", "ok", "tbl", "tbl_pad", "obj"}
Columns(v) ==
    IF v = "tbl" THEN {<<"a">>}
    ELSE IF v = "tbl_pad" THEN {<<" ", "a">>}
    ELSE {}
IsTable(v) == v \in {"tbl", "tbl_pad"}

\* a dict with string keys: a function on Names, Absent where not bound
EmptyDict == [n \in Names |-> Absent]
Keys(m) == {n \in Names : m[n] # Absent}

\* ------------------------------------------------------------- code text
Stmt(op, arg, val) == [op |-> op, arg |-> arg, val |-> val]
SP == Stmt("ws", <<" ">>, "")
NL == Stmt("ws", <<"\n">>, "")
PRINT == Stmt("print", <<"h">>, "")
EPRINT == Stmt("eprint", <<"e">>, "")
BIND_X == Stmt("bind", X, "v1")
BIND_PRIV == Stmt("bind", PRIVATE_T, "v1")
RES_4 == Stmt("bind", RESULT, "v4")
RES_OK == Stmt("bind", RESULT, "ok")
DEL_X == Stmt("del", X, "")
DIV0 == Stmt("raise", <<>>, "ZeroDivisionError")
EXIT == Stmt("raise", <<>>, "SystemExit")
GET_PAD == Stmt("getitem", <<" ", "a">>, "")
\* from core.exceptions import ExecutionTimeoutError; raise it
RAISE_TIMEOUT == Stmt("raise", <<>>, "ExecutionTimeoutError")
LOOP == Stmt("loop", <<>>, "")
\* pd.x = 'v1' and result = pd.x, on the pre-imported module pd
SET_ATTR == Stmt("setattr", X, "v1")
GET_ATTR == Stmt("getattr", X, "")
\* result = _t and result = breakpoint
READ_PRIV == Stmt("read", PRIVATE_T, "")
READ_BREAKPOINT == Stmt("read", <<"b", "r", "e", "a", "k", "p", "o", "i", "n", "t">>, "")
SYN == Stmt("syn", <<>>, "")
\* time.sleep(max_execution_time + 2): outlasts the ceiling, then finishes
SLEEP == Stmt("sleep", <<>>, "")

IsSpace(it) == it.op = "ws"

\* the snippets submitted by the callers
Codes ==
    { <<>>, <<SP>>, <<NL, SP>>,
      <<RES_4>>,
      <<DIV0>>,
      <<LOOP>>,
      <<PRINT, RES_OK>>,
      <<PRINT, DIV0>>,
      <<EPRINT, BIND_X, BIND_PRIV>>,
      <<DEL_X, RES_4>>,
      <<PRINT, GET_PAD>>,
      <<PRINT, GET_PAD, DIV0>>,
      <<SYN>>,
      <<SP, RES_4>>,
      <<PRINT, EXIT>>,
      <<SLEEP, RES_4>>,
      <<RAISE_TIMEOUT>>,
      <<READ_PRIV>>,
      <<READ_BREAKPOINT>>,
      <<EXIT, GET_PAD>>,
      <<SET_ATTR>>,
      <<GET_ATTR>>,
      <<DEL_X, GET_PAD>>,
      <<RES_4, PRINT, GET_PAD>>,
      <<RES_4, PRINT, GET_PAD, DIV0>> }

\* what a caller may pass as `code`: a text, or a value that is no text
PyStr(text) == [type |-> "str", text |-> text]
PyNone == [type |-> "NoneType", text |-> <<>>]
CodeInputs == {PyStr(c) : c \in Codes} \cup {PyNone}

\* ---------------------------------------------------- caller's contexts
\* the context mappings the callers own (objects on the heap)
CtxIds == {"c1", "c2"}
InitialContext(c) ==
    IF c = "c1"
    THEN [EmptyDict EXCEPT ![X] = "v1", ![PRIVATE_T] = "v1", ![DF] = "tbl_pad"]
    ELSE [EmptyDict EXCEPT ![RESULT] = "ok", ![DF] = "tbl"]
\* what a caller may pass as `context`: nothing, one of its mappings, or a
\* non-empty value that is no mapping (a list)
ContextInputs == CtxIds \cup {None, "list"}

\* ------------------------------------------------------- pure functions
\* str.strip() on a sequence, `blanks` the set of its whitespace elements
RECURSIVE LStrip(_, _)
LStrip(s, blanks) ==
    IF s = <<>> THEN <<>>
    ELSE IF Head(s) \in blanks THEN LStrip(Tail(s), blanks) ELSE s
RECURSIVE RStrip(_, _)
RStrip(s, blanks) ==
    IF s = <<>> THEN <<>>
    ELSE IF s[Len(s)] \in blanks
         THEN RStrip(SubSeq(s, 1, Len(s) - 1), blanks) ELSE s
Strip(s, blanks) == RStrip(LStrip(s, blanks), blanks)

BlankChars == {" ", "\n", "\t"}
StripChars(s) == Strip(s, BlankChars)
\* code.strip()
StripCode(code) == Strip(code, {SP, NL})

\* str.startswith
StartsWith(s, prefix) ==
    /\ Len(s) >= Len(prefix)
    /\ SubSeq(s, 1, Len(prefix)) = prefix

\* the emptiness test without the strip(): `not code`
IsEmptyCodeNoStrip(code) == code = <<>>

\* `not code or not code.strip()` (line 399)
IsEmptyCode(code) == code = <<>> \/ StripCode(code) = <<>>

\* the stand-in StringEscapeHandler of lines 27-37: every text is valid and
\* the repaired text is the text unchanged
validate_string(code) == [valid |-> TRUE]
fix_string_issues(code) == [success |-> TRUE, fixed_code |-> code]

\* _preprocess_code_original: re.sub over df['<key>'] subscripts, the key
\* replaced by key.strip()
PreprocessItem(it) ==
    IF it.op = "getitem" THEN [it EXCEPT !.arg = StripChars(it.arg)] ELSE it
PreprocessOriginal(code) == [i \in 1..Len(code) |-> PreprocessItem(code[i])]

\* _preprocess_code_with_string_handling
PreprocessWithStringHandling(code) ==
    LET validation == validate_string(code)
        fix_result == fix_string_issues(code)
        repaired == IF ~validation.valid /\ fix_result.success
                    THEN fix_result.fixed_code ELSE code
    IN PreprocessOriginal(repaired)

\* compile(text, '<string>', 'exec'): the class of the exception it raises,
\* or "none".  A statement that directly follows a space is indented
\* (IndentationError); a malformed statement is a SyntaxError.
CompileError(text) ==
    IF \E i \in 1..Len(text) : text[i].op = "syn" THEN "SyntaxError"
    ELSE IF \E i \in 2..Len(text) :
                ~IsSpace(text[i]) /\ text[i-1] = SP THEN "IndentationError"
    ELSE "none"
IsStatement(it) == ~IsSpace(it)
CompiledCode(text) == SelectSeq(text, IsStatement)

\* ---------------------------------------------------- exception classes
\* the exception classes imported from core.exceptions (line 43); that
\* module defines them as ordinary application errors
CoreExceptions ==
    {"SecurityViolationError", "ExecutionTimeoutError", "MemoryLimitError"}
ExcParent(c) ==
    CASE c = "Exception" -> "BaseException"
      [] c \in CoreExceptions -> "Exception"
      [] c = "SystemExit" -> "BaseException"
      [] c = "IndentationError" -> "SyntaxError"
      [] c = "UnboundLocalError" -> "NameError"
      [] c = "ZeroDivisionError" -> "ArithmeticError"
      [] c = "KeyError" -> "LookupError"
      [] c = "IndexError" -> "LookupError"
      [] c = "BaseException" -> "object"
      [] OTHER -> "Exception"
RECURSIVE IsSubclass(_, _)
IsSubclass(c, d) ==
    IF c = d THEN TRUE
    ELSE IF c = "object" THEN FALSE
    ELSE IsSubclass(ExcParent(c), d)

\* the except clauses of execute_code in source order (lines 461-565); the
\* last one, `except Exception`, reports type(e).__name__
ExceptClauses ==
    << "SyntaxError", "NameError", "KeyError", "AttributeError",
       "ImportError", "ValueError", "TypeError", "IndexError", "Exception" >>
\* index of the clause that handles an exception of class c, 0 if none does
HandlerIndex(c) ==
    LET hits == {i \in 1..Len(ExceptClauses) : IsSubclass(c, ExceptClauses[i])}
    IN IF hits = {} THEN 0
       ELSE CHOOSE i \in hits : \A j \in hits : i <= j
\* the 'error' field the handling clause writes
ErrorKind(c) ==
    IF ExceptClauses[HandlerIndex(c)] = "Exception" THEN c
    ELSE ExceptClauses[HandlerIndex(c)]

\* ------------------------------------------------------------- namespace
LEN == <<"l", "e", "n">>
PRINT_FN == <<"p", "r", "i", "n", "t">>
OPEN == <<"o", "p", "e", "n">>
EXEC == <<"e", "x", "e", "c">>
EVAL == <<"e", "v", "a", "l">>
BREAKPOINT == <<"b", "r", "e", "a", "k", "p", "o", "i", "n", "t">>
QUIT == <<"q", "u", "i", "t">>
IMPORT == <<"_", "_", "i", "m", "p", "o", "r", "t", "_", "_">>
BUILD_CLASS == <<"_", "_", "b", "u", "i", "l", "d", "_", "c", "l", "a", "s", "s", "_", "_">>
BUILTINS_KEY == <<"_", "_", "b", "u", "i", "l", "t", "i", "n", "s", "_", "_">>
PD == <<"p", "d">>
NP == <<"n", "p">>

\* dir(builtins) of the host interpreter
HostBuiltins ==
    {LEN, PRINT_FN, OPEN, EXEC, EVAL, BREAKPOINT, QUIT, IMPORT, BUILD_CLASS}
\* self.safe_builtins, the allow-list of builtin names (lines 197-209)
safe_builtins == {LEN, PRINT_FN, OPEN, EXEC, EVAL, IMPORT}
\* the names self.safe_modules holds (lines 212-257)
safe_modules == {PD, NP}

\* create_safe_globals (lines 259-293): the names of the globals mapping
\* and of the mapping stored under '__builtins__'
create_safe_globals(modules) ==
    [builtins |->
        {n \in HostBuiltins : ~StartsWith(n, <<"_">>) \/ n \in {IMPORT}}
          \cup {PRINT_FN, OPEN, EXEC, EVAL} \cup {IMPORT},
     globals |-> {BUILTINS_KEY} \cup modules]
NoGlobals == [builtins |-> {}, globals |-> {}]

\* the value a name evaluates to at the top level of the snippet: locals,
\* then globals, then builtins; Absent when the name is bound nowhere
LoadName(m, g, name) ==
    IF name \in Names /\ m[name] # Absent THEN m[name]
    ELSE IF name \in g.globals \cup g.builtins THEN "obj"
    ELSE Absent

\* ----------------------------------------------------------------- state
VARIABLES
    engine,      \* the SecureCodeExecutor instance: its configuration
    sys_stdout,  \* the process-wide sys.stdout binding (a stream id)
    sys_stderr,  \* the process-wide sys.stderr binding (a stream id)
    streams,     \* stream id -> the text written to it
    heap,        \* dict objects: the callers' contexts and the runs' locals
    calls,       \* number of execute_code calls started
    th,          \* caller -> the frame of its execute_code call
    monitor,     \* the ResourceMonitor instance (engine.monitor)
    sig,         \* the process's SIGALRM state: pending alarm and handler
    mon,         \* the frame of the code using monitor_execution
    analyzer,    \* the ASTSecurityAnalyzer instance (engine.analyzer)
    reports      \* the reports analyze() returned, latest first

guardVars == <<monitor, sig, mon>>
analyzerVars == <<analyzer, reports>>
vars == <<engine, sys_stdout, sys_stderr, streams, heap, calls, th,
          monitor, sig, mon, analyzer, reports>>

\* the stream installed as sys.stdout / sys.stderr before any call
Console == 0
\* an output_buffer variable that has not been assigned yet
Unbound == 0 - 1
StreamIds == Console..MaxCalls

\* the time ceiling the engine is constructed with (Scenario D: 2 seconds)
max_execution_time == 2
max_memory_mb == 2

\* the dict object a call creates at `safe_locals = {}`
LocalsOf(t) == IF t = "t1" THEN "l1" ELSE "l2"
\* the module object self.safe_modules holds under 'pd'; its attributes are
\* kept like the entries of a dict
ModuleIds == {"m_pd"}
HeapIds == CtxIds \cup {LocalsOf(t) : t \in Callers} \cup ModuleIds

NoRet ==
    [kind |-> "none", keys |-> {}, success |-> FALSE, error |-> "",
     output |-> <<>>, result |-> None, locals |-> EmptyDict,
     execution_time |-> 0, exc |-> "none"]

IdleFrame ==
    [pc |-> "idle", code |-> PyNone, context |-> None, bufid |-> Unbound,
     processed_code |-> <<>>, safe_locals |-> "unbound",
     safe_globals |-> NoGlobals, texts |-> <<>>, first_exc |-> "none",
     first_locals |-> EmptyDict, first_written |-> <<>>,
     output_buffer |-> Unbound, old_stdout |-> Unbound, old_stderr |-> Unbound,
     compiled_code |-> <<>>, ip |-> 1, attempt |-> 1, exc |-> "none",
     elapsed |-> 0, spin |-> FALSE, steps |-> {}, written |-> <<>>,
     ret |-> NoRet]

\* the code that uses monitor_execution, before it enters the scope
IdleGuard ==
    [pc |-> "outside", old_handler |-> "SIG_DFL", exc |-> "none", uses |-> 0,
     memory |-> [checked |-> FALSE, usage_bytes |-> 0, raised |-> "none",
                 limit_mb |-> 0, usage_mb |-> 0]]

\* ASTSecurityAnalyzer.__init__ (lines 48-58)
NewAnalyzer ==
    [violations |-> <<>>, imports |-> {}, function_calls |-> {},
     attribute_accesses |-> {}]

Init ==
    /\ \E enable_ast_analysis \in BOOLEAN :
          engine = [max_memory_mb |-> max_memory_mb,
                    max_execution_time |-> max_execution_time,
                    enable_ast_analysis |-> enable_ast_analysis,
                    enable_string_validation |-> TRUE,
                    safe_builtins |-> safe_builtins,
                    safe_modules |-> safe_modules]
    /\ sys_stdout = Console
    /\ sys_stderr = Console
    /\ streams = [i \in StreamIds |-> <<>>]
    /\ heap = [h \in HeapIds |->
                 IF h \in CtxIds THEN InitialContext(h) ELSE EmptyDict]
    /\ calls = 0
    /\ th = [t \in Callers |-> IdleFrame]
    /\ monitor = [max_memory |-> max_memory_mb * 1024 * 1024,
                  max_execution_time |-> max_execution_time,
                  start_time |-> None, timeout_occurred |-> FALSE]
    /\ sig = [alarm |-> 0, handler |-> "SIG_DFL"]
    /\ mon = IdleGuard
    /\ analyzer = NewAnalyzer
    /\ reports = <<>>

\* ------------------------------------------------------------- operations
\* execute_code entered: start_time = time.time() (line 393)
CallWith(t, code, context) ==
    /\ th[t].pc = "idle"
    /\ calls < MaxCalls
    /\ calls' = calls + 1
    /\ th' = [th EXCEPT ![t] =
                [IdleFrame EXCEPT !.pc = "validate", !.code = code,
                                  !.context = context, !.bufid = calls + 1]]
    /\ UNCHANGED <<guardVars, analyzerVars, engine, sys_stdout, sys_stderr, streams, heap>>

\* a call made while no other call is in progress
Call(t) ==
    /\ \A u \in Callers : th[u].pc = "idle"
    /\ \E code \in CodeInputs, context \in ContextInputs :
          CallWith(t, code, context)

\* the calls made from threads of their own: snippets that write output,
\* bind names, fail, fall back, loop or exit
ConcurrentCodes ==
    { <<PRINT, RES_OK>>, <<PRINT, DIV0>>, <<EPRINT, BIND_X, BIND_PRIV>>,
      <<PRINT, GET_PAD>>, <<LOOP>>, <<PRINT, EXIT>>, <<NL, SP>> }
ConcurrentContexts == {None, "c1"}

\* a call made from a thread of its own, whatever the other callers do
ConcurrentCall(t) ==
    \E code \in ConcurrentCodes, context \in ConcurrentContexts :
        CallWith(t, PyStr(code), context)

\* the dict returned at lines 400-404
EmptyCodeResult ==
    [NoRet EXCEPT !.kind = "dict", !.keys = {"success", "error", "message"},
                  !.error = "EmptyCode"]

\* lines 395-404: len(code), then the emptiness test
Validate(t) ==
    /\ th[t].pc = "validate"
    /\ th' = [th EXCEPT ![t] =
         IF @.code.type # "str"
         THEN [@ EXCEPT !.pc = "except", !.exc = "TypeError"]
         ELSE IF IsEmptyCode(@.code.text)
         THEN [@ EXCEPT !.pc = "done", !.ret = EmptyCodeResult]
         ELSE [@ EXCEPT !.pc = "security"]]
    /\ UNCHANGED <<guardVars, analyzerVars, engine, sys_stdout, sys_stderr, streams, heap, calls>>

\* _check_code_security: always {'allowed': True, ...}
CheckCodeSecurity(code) == [allowed |-> TRUE, warnings |-> <<>>]

\* lines 406-410
SecurityCheck(t) ==
    /\ th[t].pc = "security"
    /\ LET security_result == CheckCodeSecurity(th[t].code.text)
       IN th' = [th EXCEPT ![t] =
                   [@ EXCEPT !.pc = "preprocess",
                             !.steps = @ \cup {"security"}]]
    /\ UNCHANGED <<guardVars, analyzerVars, engine, sys_stdout, sys_stderr, streams, heap, calls>>

\* line 413
Preprocess(t) ==
    /\ th[t].pc = "preprocess"
    /\ th' = [th EXCEPT ![t] =
                [@ EXCEPT !.pc = "namespace",
                          !.steps = @ \cup {"preprocess"},
                          !.processed_code =
                              PreprocessWithStringHandling(th[t].code.text)]]
    /\ UNCHANGED <<guardVars, analyzerVars, engine, sys_stdout, sys_stderr, streams, heap, calls>>

\* dict.update(other)
DictUpdate(m, other) ==
    [n \in Names |-> IF other[n] # Absent THEN other[n] ELSE m[n]]
\* truthiness of the `context` argument (line 420)
Truthy(context) ==
    CASE context = None -> FALSE
      [] context = "list" -> TRUE
      [] OTHER -> Keys(heap[context]) # {}

\* safe_locals bound to the caller's own mapping instead of a new dict
SafeLocalsAliased(t, context) ==
    IF context \in CtxIds THEN context ELSE LocalsOf(t)

\* the object bound to safe_locals at line 417: a dict of the call's own
SafeLocals(t, context) == LocalsOf(t)

\* lines 415-421: create_safe_globals(), safe_locals = {}, context injection
BuildNamespace(t) ==
    /\ th[t].pc = "namespace"
    /\ LET context == th[t].context
           ref == SafeLocals(t, context)
           fresh == [heap EXCEPT ![LocalsOf(t)] = EmptyDict]
       IN IF Truthy(context) /\ context \notin CtxIds
          THEN \* safe_locals.update(<a list>) raises TypeError
               /\ heap' = fresh
               /\ th' = [th EXCEPT ![t] =
                           [@ EXCEPT !.pc = "except", !.exc = "TypeError",
                                     !.safe_globals =
                                        create_safe_globals(engine.safe_modules),
                                     !.safe_locals = ref,
                                     !.steps = @ \cup {"namespace"}]]
          ELSE /\ heap' = IF Truthy(context)
                          THEN [fresh EXCEPT ![ref] =
                                   DictUpdate(fresh[ref], fresh[context])]
                          ELSE fresh
               /\ th' = [th EXCEPT ![t] =
                           [@ EXCEPT !.pc = "redirect_stdout",
                                     !.safe_globals =
                                        create_safe_globals(engine.safe_modules),
                                     !.safe_locals = ref,
                                     !.steps = @ \cup {"namespace"}]]
    /\ UNCHANGED <<guardVars, analyzerVars, engine, sys_stdout, sys_stderr, streams, calls>>

\* lines 424 and 427: output_buffer = StringIO(); redirect_stdout.__enter__
\* saves sys.stdout and installs the buffer
RedirectStdout(t) ==
    /\ th[t].pc = "redirect_stdout"
    /\ streams' = [streams EXCEPT ![th[t].bufid] = <<>>]
    /\ sys_stdout' = th[t].bufid
    /\ th' = [th EXCEPT ![t] =
                [@ EXCEPT !.pc = "redirect_stderr",
                          !.output_buffer = th[t].bufid,
                          !.old_stdout = sys_stdout]]
    /\ UNCHANGED <<guardVars, analyzerVars, engine, sys_stderr, heap, calls>>

\* line 427: redirect_stderr.__enter__
RedirectStderr(t) ==
    /\ th[t].pc = "redirect_stderr"
    /\ sys_stderr' = th[t].output_buffer
    /\ th' = [th EXCEPT ![t] =
                [@ EXCEPT !.pc = "compile", !.old_stderr = sys_stderr]]
    /\ UNCHANGED <<guardVars, analyzerVars, engine, sys_stdout, streams, heap, calls>>

\* where control goes when an exception of class c is raised inside the
\* inner try (line 428): `except Exception` (line 435) takes it on the
\* first attempt, otherwise it leaves the with-block
RaiseInTry(f, c) ==
    [f EXCEPT !.exc = c,
              !.first_exc = IF f.attempt = 1 THEN c ELSE @,
              !.pc = IF f.attempt = 1 /\ IsSubclass(c, "Exception")
                     THEN "fallback" ELSE "exit_stderr"]

\* the frame once `text` has been compiled and is about to be exec'ed
StartExec(f, text) ==
    IF CompileError(text) # "none"
    THEN RaiseInTry([f EXCEPT !.texts = Append(@, text)], CompileError(text))
    ELSE [f EXCEPT !.compiled_code = CompiledCode(text), !.ip = 1,
                   !.texts = Append(@, text),
                   !.exc = "none",
                   !.pc = IF CompiledCode(text) = <<>>
                          THEN "exit_stderr" ELSE "exec"]

\* line 430: compile(processed_code, '<string>', 'exec')
Compile(t) ==
    /\ th[t].pc = "compile"
    /\ th' = [th EXCEPT ![t] = StartExec(@, @.processed_code)]
    /\ UNCHANGED <<guardVars, analyzerVars, engine, sys_stdout, sys_stderr, streams, heap, calls>>

\* the content of the caller's mapping when the call began
StartingLocals(context) ==
    IF context \in CtxIds THEN InitialContext(context) ELSE EmptyDict
\* a retry that starts from the context again
RetryLocalsFresh(m, context) == StartingLocals(context)
\* the locals the second exec runs in (line 440): the dict the first exec
\* ran in, as it left it
RetryLocals(m, context) == m

\* lines 435-442: the one-shot fallback to the original text
Fallback(t) ==
    /\ th[t].pc = "fallback"
    /\ th' = [th EXCEPT ![t] =
         IF @.processed_code # @.code.text
         THEN StartExec([@ EXCEPT !.attempt = 2,
                                  !.first_locals = heap[th[t].safe_locals],
                                  !.first_written = th[t].written],
                        @.code.text)
         ELSE [@ EXCEPT !.pc = "exit_stderr"]]
    /\ heap' = IF th[t].processed_code # th[t].code.text
               THEN [heap EXCEPT ![th[t].safe_locals] =
                        RetryLocals(@, th[t].context)]
               ELSE heap
    /\ UNCHANGED <<guardVars, analyzerVars, engine, sys_stdout, sys_stderr, streams, calls>>

\* the frame after its current statement completed normally
Advance(f) ==
    [f EXCEPT !.ip = @ + 1,
              !.pc = IF f.ip = Len(f.compiled_code) THEN "exit_stderr" ELSE @]

\* the exception class raised by evaluating df[<key>] in locals m, or "none"
GetItemError(m, key) ==
    IF m[DF] = Absent THEN "NameError"
    ELSE IF ~IsTable(m[DF]) THEN "TypeError"
    ELSE IF key \notin Columns(m[DF]) THEN "KeyError"
    ELSE "none"

\* the elapsed time once a sleep that outlasts the ceiling has returned
Slept(elapsed, ceiling) ==
    IF elapsed + ceiling + 2 < MaxElapsed
    THEN elapsed + ceiling + 2 ELSE MaxElapsed

\* lines 433 and 440: exec(compiled_code, safe_globals, safe_locals), one
\* statement of the snippet at a time
ExecStmt(t) ==
    /\ th[t].pc = "exec"
    /\ LET f == th[t]
           s == f.compiled_code[f.ip]
           ref == f.safe_locals
           m == heap[ref]
       IN /\ s.op # "loop"
          /\ CASE s.op = "print" ->
                    /\ streams' = [streams EXCEPT ![sys_stdout] = @ \o s.arg]
                    /\ th' = [th EXCEPT ![t] =
                                Advance([f EXCEPT !.written = @ \o s.arg])]
                    /\ UNCHANGED heap
               [] s.op = "eprint" ->
                    /\ streams' = [streams EXCEPT ![sys_stderr] = @ \o s.arg]
                    /\ th' = [th EXCEPT ![t] =
                                Advance([f EXCEPT !.written = @ \o s.arg])]
                    /\ UNCHANGED heap
               [] s.op = "bind" ->
                    /\ heap' = [heap EXCEPT ![ref][s.arg] = s.val]
                    /\ th' = [th EXCEPT ![t] = Advance(f)]
                    /\ UNCHANGED streams
               [] s.op = "del" ->
                    /\ heap' = [heap EXCEPT ![ref][s.arg] = Absent]
                    /\ th' = [th EXCEPT ![t] =
                                IF m[s.arg] = Absent
                                THEN RaiseInTry(f, "NameError")
                                ELSE Advance(f)]
                    /\ UNCHANGED streams
               [] s.op = "getitem" ->
                    /\ th' = [th EXCEPT ![t] =
                                IF GetItemError(m, s.arg) # "none"
                                THEN RaiseInTry(f, GetItemError(m, s.arg))
                                ELSE Advance(f)]
                    /\ UNCHANGED <<heap, streams>>
               [] s.op = "raise" ->
                    /\ th' = [th EXCEPT ![t] = RaiseInTry(f, s.val)]
                    /\ UNCHANGED <<heap, streams>>
               [] s.op = "read" ->
                    /\ heap' = IF LoadName(m, f.safe_globals, s.arg) = Absent
                               THEN heap
                               ELSE [heap EXCEPT ![ref][RESULT] =
                                       LoadName(m, f.safe_globals, s.arg)]
                    /\ th' = [th EXCEPT ![t] =
                                IF LoadName(m, f.safe_globals, s.arg) = Absent
                                THEN RaiseInTry(f, "NameError")
                                ELSE Advance(f)]
                    /\ UNCHANGED streams
               [] s.op = "setattr" ->
                    /\ heap' = [heap EXCEPT !["m_pd"][s.arg] = s.val]
                    /\ th' = [th EXCEPT ![t] = Advance(f)]
                    /\ UNCHANGED streams
               [] s.op = "getattr" ->
                    /\ heap' = IF heap["m_pd"][s.arg] = Absent THEN heap
                               ELSE [heap EXCEPT ![ref][RESULT] =
                                       heap["m_pd"][s.arg]]
                    /\ th' = [th EXCEPT ![t] =
                                IF heap["m_pd"][s.arg] = Absent
                                THEN RaiseInTry(f, "AttributeError")
                                ELSE Advance(f)]
                    /\ UNCHANGED streams
               [] s.op = "sleep" ->
                    /\ th' = [th EXCEPT ![t] =
                                Advance([f EXCEPT !.elapsed =
                                           Slept(@, engine.max_execution_time)])]
                    /\ UNCHANGED <<heap, streams>>
    /\ UNCHANGED <<guardVars, analyzerVars, engine, sys_stdout, sys_stderr, calls>>

\* one iteration of `while True: pass`: a second of wall-clock time passes
\* and control stays inside exec (nothing in execute_code arms a deadline)
Spin(t) ==
    /\ th[t].pc = "exec"
    /\ th[t].compiled_code[th[t].ip].op = "loop"
    /\ th' = [th EXCEPT ![t] =
                [@ EXCEPT !.spin = ~@,
                          !.elapsed = IF @ < MaxElapsed THEN @ + 1 ELSE @]]
    /\ UNCHANGED <<guardVars, analyzerVars, engine, sys_stdout, sys_stderr, streams, heap, calls>>

\* leaving the with-block of line 427, normally or by an exception:
\* redirect_stderr.__exit__ puts back the stream it saved
ExitStderr(t) ==
    /\ th[t].pc = "exit_stderr"
    /\ sys_stderr' = th[t].old_stderr
    /\ th' = [th EXCEPT ![t] = [@ EXCEPT !.pc = "exit_stdout"]]
    /\ UNCHANGED <<guardVars, analyzerVars, engine, sys_stdout, streams, heap, calls>>

\* redirect_stdout.__exit__
ExitStdout(t) ==
    /\ th[t].pc = "exit_stdout"
    /\ sys_stdout' = th[t].old_stdout
    /\ th' = [th EXCEPT ![t] =
                [@ EXCEPT !.pc = IF th[t].exc = "none"
                                 THEN "finish" ELSE "except"]]
    /\ UNCHANGED <<guardVars, analyzerVars, engine, sys_stderr, streams, heap, calls>>

\* the result read from another name than `result`
ResultOfWrongName(m) == IF m[X] = Absent THEN None ELSE m[X]

\* line 448: safe_locals.get('result')
ResultOf(m) == IF m[RESULT] = Absent THEN None ELSE m[RESULT]

\* the locals returned without the underscore filter
AllLocals(m) == m

\* line 458: {k: v for k, v in safe_locals.items() if not k.startswith('_')}
PublicLocals(m) ==
    [k \in Names |-> IF ~StartsWith(k, <<"_">>) THEN m[k] ELSE Absent]

\* the dict returned at lines 453-459
SuccessResult(output, m, execution_time) ==
    [NoRet EXCEPT !.kind = "dict",
                  !.keys = {"success", "output", "result", "execution_time",
                            "locals"},
                  !.success = TRUE, !.output = output, !.result = ResultOf(m),
                  !.execution_time = execution_time,
                  !.locals = PublicLocals(m)]

\* a failure that reports no output
FailureOutputDropped(buffer_text) == <<>>

\* the 'output' field of the except clauses: output_buffer.getvalue()
FailureOutput(buffer_text) == buffer_text

\* the dict returned by each except clause (lines 464-472, ..., 583-591)
FailureResult(c, buffer_text, execution_time) ==
    [NoRet EXCEPT !.kind = "dict",
                  !.keys = {"success", "error", "message", "execution_time",
                            "suggestion", "output", "traceback"},
                  !.error = ErrorKind(c),
                  !.output = FailureOutput(buffer_text),
                  !.execution_time = execution_time]

\* an exception leaves execute_code
Propagate(c) == [NoRet EXCEPT !.kind = "raise", !.exc = c]

\* the dict object of the finished run is no longer referenced
Release(t) == [heap EXCEPT ![LocalsOf(t)] = EmptyDict]

\* a StringIO is referenced by the frame that made it, by sys.stdout or
\* sys.stderr while installed there, and by a redirect that saved it
Referenced(b, out, err, frames) ==
    \/ out = b
    \/ err = b
    \/ \E u \in Callers :
          b \in {frames[u].output_buffer, frames[u].old_stdout,
                 frames[u].old_stderr}
\* the streams with the text of every unreferenced StringIO dropped
Collected(out, err, frames) ==
    [b \in StreamIds |->
        IF b # Console /\ ~Referenced(b, out, err, frames)
        THEN <<>> ELSE streams[b]]

\* lines 444-459
Finish(t) ==
    /\ th[t].pc = "finish"
    /\ th' = [th EXCEPT ![t] =
                [@ EXCEPT !.pc = "done",
                          !.ret = SuccessResult(streams[th[t].output_buffer],
                                                heap[th[t].safe_locals],
                                                th[t].elapsed)]]
    /\ UNCHANGED <<guardVars, analyzerVars, engine, sys_stdout, sys_stderr, streams, heap, calls>>

\* lines 461-591: the except clauses.  An exception that is no Exception
\* passes them all; a clause that runs while output_buffer is unassigned
\* raises UnboundLocalError at output_buffer.getvalue()
Except(t) ==
    /\ th[t].pc = "except"
    /\ LET f == th[t]
           c == f.exc
       IN th' = [th EXCEPT ![t] =
            [f EXCEPT !.pc = "done",
                      !.ret = IF HandlerIndex(c) = 0 THEN Propagate(c)
                              ELSE IF f.output_buffer = Unbound
                              THEN Propagate("UnboundLocalError")
                              ELSE FailureResult(c, streams[f.output_buffer],
                                                 f.elapsed)]]
    /\ UNCHANGED <<guardVars, analyzerVars, engine, sys_stdout, sys_stderr, streams, heap, calls>>

\* the outcome is handed to the caller and the frame of the call is gone
Return(t) ==
    /\ th[t].pc = "done"
    /\ th' = [th EXCEPT ![t] = IdleFrame]
    /\ streams' = Collected(sys_stdout, sys_stderr, th')
    /\ heap' = Release(t)
    /\ UNCHANGED <<guardVars, analyzerVars, engine, sys_stdout, sys_stderr, calls>>

\* ---------------------------------------------------------- specification
\* one run at a time: execute_code is synchronous and a caller starts a
\* call only when no other call is in progress
Step(t) ==
    \/ Validate(t)
    \/ SecurityCheck(t)
    \/ Preprocess(t)
    \/ BuildNamespace(t)
    \/ RedirectStdout(t)
    \/ RedirectStderr(t)
    \/ Compile(t)
    \/ ExecStmt(t)
    \/ Spin(t)
    \/ Fallback(t)
    \/ ExitStderr(t)
    \/ ExitStdout(t)
    \/ Finish(t)
    \/ Except(t)
    \/ Return(t)

Next ==
    \E t \in Callers :
        \/ Call(t)
        \/ Step(t)

Spec == Init /\ [][Next]_vars

\* callers on concurrent threads sharing the engine
ConcurrentNext ==
    \E t \in Callers :
        \/ ConcurrentCall(t)
        \/ Step(t)

ConcurrentSpec == Init /\ [][ConcurrentNext]_vars

\* a running call keeps taking steps
FairSpec == Spec /\ \A t \in Callers : WF_vars(Step(t))

\* ------------------------------------------------------- ResourceMonitor
executorVars == <<engine, sys_stdout, sys_stderr, streams, heap, calls, th>>

\* number of times the guard scope is entered
MaxUses == 2

\* what resource.getrusage and sys.platform give check_memory_usage: the
\* peak resident size in bytes on darwin and in kilobytes elsewhere, or a
\* failing sample
Samples ==
    { [platform |-> "linux",  ok |-> TRUE,  ru_maxrss |-> 2048],
      [platform |-> "linux",  ok |-> TRUE,  ru_maxrss |-> 3072],
      [platform |-> "linux",  ok |-> TRUE,  ru_maxrss |-> 3073],
      [platform |-> "linux",  ok |-> TRUE,  ru_maxrss |-> 8192],
      [platform |-> "darwin", ok |-> TRUE,  ru_maxrss |-> 3145728],
      [platform |-> "darwin", ok |-> TRUE,  ru_maxrss |-> 3145729],
      [platform |-> "linux",  ok |-> FALSE, ru_maxrss |-> 0] }

memory_usage_bytes(sample) ==
    IF sample.platform = "darwin" THEN sample.ru_maxrss
    ELSE sample.ru_maxrss * 1024

\* memory_usage_bytes > self.max_memory * 1.5
OverHardCeiling(bytes, max_memory) == 2 * bytes > 3 * max_memory

\* the class an exception raised in the try block of check_memory_usage
\* leaves the method with: `except Exception` logs it and returns
SwallowedByExcept(c) ==
    IF c # "none" /\ IsSubclass(c, "Exception") THEN "none" ELSE c

\* check_memory_usage (lines 129-147) on one sample
check_memory_usage(sample, max_memory) ==
    LET bytes == memory_usage_bytes(sample)
        over == sample.ok /\ OverHardCeiling(bytes, max_memory)
        raisedInTry == IF ~sample.ok THEN "OSError"
                       ELSE IF over THEN "MemoryLimitError"
                       ELSE "none"
    IN [checked |-> TRUE,
        usage_bytes |-> IF sample.ok THEN bytes ELSE 0,
        raised |-> SwallowedByExcept(raisedInTry),
        limit_mb |-> IF over THEN max_memory \div (1024 * 1024) ELSE 0,
        usage_mb |-> IF over THEN bytes \div (1024 * 1024) ELSE 0]

\* code inside the guard scope samples the memory
CheckMemory ==
    /\ mon.pc = "body"
    /\ \E sample \in Samples :
          mon' = [mon EXCEPT
                    !.memory = check_memory_usage(sample, monitor.max_memory)]
    /\ UNCHANGED <<monitor, sig, analyzerVars, executorVars>>

\* a guard exit that leaves the timer alone
DisarmSkipped(s) == s
\* signal.alarm(0), line 168
Disarm(s) == [s EXCEPT !.alarm = 0]

\* monitor_execution up to signal.alarm (lines 157-162)
MonitorEnter ==
    /\ mon.pc = "outside"
    /\ mon.uses < MaxUses
    /\ monitor' = [monitor EXCEPT !.start_time = "now",
                                  !.timeout_occurred = FALSE]
    /\ sig' = [alarm |-> monitor.max_execution_time,
               handler |-> "timeout_handler"]
    /\ mon' = [mon EXCEPT !.pc = "armed", !.old_handler = sig.handler,
                          !.exc = "none", !.uses = @ + 1]
    /\ UNCHANGED <<analyzerVars, executorVars>>

\* `try: yield self` (lines 164-165): the protected region starts
EnterBody ==
    /\ mon.pc = "armed"
    /\ mon' = [mon EXCEPT !.pc = "body"]
    /\ UNCHANGED <<monitor, sig, analyzerVars, executorVars>>

\* the protected region finishes, returns early or raises
LeaveBody ==
    /\ mon.pc = "body"
    /\ \E c \in {"none", "return", "ValueError", "SystemExit"} :
          mon' = [mon EXCEPT !.pc = "finally", !.exc = c]
    /\ UNCHANGED <<monitor, sig, analyzerVars, executorVars>>

\* a second of the armed timer passes
Tick ==
    /\ sig.alarm > 1
    /\ sig' = [sig EXCEPT !.alarm = @ - 1]
    /\ UNCHANGED <<monitor, mon, analyzerVars, executorVars>>

\* the timer expires and SIGALRM is delivered: timeout_handler (lines
\* 149-152) raises at the point the main thread has reached; the default
\* disposition ends the process
AlarmFires ==
    /\ sig.alarm = 1
    /\ sig' = [sig EXCEPT !.alarm = 0]
    /\ IF sig.handler = "timeout_handler"
       THEN /\ monitor' = [monitor EXCEPT !.timeout_occurred = TRUE]
            /\ mon' = [mon EXCEPT
                         !.pc = CASE mon.pc = "body" -> "finally"
                                  [] mon.pc = "outside" -> "outside"
                                  [] OTHER -> "exited",
                         !.exc = "ExecutionTimeoutError"]
       ELSE /\ mon' = [mon EXCEPT !.pc = "killed"]
            /\ UNCHANGED monitor
    /\ UNCHANGED <<analyzerVars, executorVars>>

\* finally: signal.alarm(0) (line 168)
FinallyDisarm ==
    /\ mon.pc = "finally"
    /\ sig' = Disarm(sig)
    /\ mon' = [mon EXCEPT !.pc = "restore"]
    /\ UNCHANGED <<monitor, analyzerVars, executorVars>>

\* finally: signal.signal(SIGALRM, old_handler) (line 169); the scope is left
FinallyRestore ==
    /\ mon.pc = "restore"
    /\ sig' = [sig EXCEPT !.handler = mon.old_handler]
    /\ mon' = [mon EXCEPT !.pc = "exited"]
    /\ UNCHANGED <<monitor, analyzerVars, executorVars>>

\* the code that used the guard goes on and may use it again
MonitorLeave ==
    /\ mon.pc = "exited"
    /\ mon' = [mon EXCEPT !.pc = "outside"]
    /\ UNCHANGED <<monitor, sig, analyzerVars, executorVars>>

MonitorNext ==
    \/ MonitorEnter
    \/ EnterBody
    \/ CheckMemory
    \/ LeaveBody
    \/ Tick
    \/ AlarmFires
    \/ FinallyDisarm
    \/ FinallyRestore
    \/ MonitorLeave

MonitorSpec == Init /\ [][MonitorNext]_vars

\* --------------------------------------------------- ASTSecurityAnalyzer
\* number of analyze calls made on the analyzer
MaxAnalyses == 3

\* a node of the parsed tree: its class, the name it carries (a sequence of
\* characters, empty when it carries none) and its child nodes
Node(kind, name, sub) == [kind |-> kind, name |-> name, sub |-> sub]
IMPORT_OS_P == Node("Import", <<"o", "s", ".", "p">>, <<>>)
FROM_NP == Node("ImportFrom", <<"n", "p">>, <<>>)
FROM_RELATIVE == Node("ImportFrom", <<>>, <<>>)
ATTR_Y == Node("Attribute", <<"y">>, <<>>)
CALL_LEN == Node("Call", <<"l", "e", "n">>, <<>>)
\* x.y(): the callee is an attribute, not a plain name
CALL_METHOD == Node("Call", <<>>, <<ATTR_Y>>)
ASSIGN == Node("Assign", <<>>, <<>>)
INVALID == Node("Invalid", <<>>, <<>>)

\* the texts handed to analyze, as the statements ast.parse finds in them
AnalyzerTexts ==
    { <<ASSIGN>>,
      <<IMPORT_OS_P>>,
      <<FROM_NP, CALL_LEN>>,
      <<FROM_RELATIVE, CALL_METHOD>>,
      <<IMPORT_OS_P, INVALID>> }

\* ast.parse raises SyntaxError
ParseFails(text) == \E i \in 1..Len(text) : text[i].kind = "Invalid"

\* name.split('.')[0]
RECURSIVE FirstPart(_)
FirstPart(name) ==
    IF name = <<>> \/ Head(name) = "." THEN <<>>
    ELSE <<Head(name)>> \o FirstPart(Tail(name))

\* visit_Import, visit_ImportFrom, visit_Call, visit_Attribute on one node
VisitNode(a, n) ==
    CASE n.kind = "Import" ->
           [a EXCEPT !.imports = @ \cup {FirstPart(n.name)}]
      [] n.kind = "ImportFrom" /\ n.name # <<>> ->
           [a EXCEPT !.imports = @ \cup {FirstPart(n.name)}]
      [] n.kind = "Call" /\ n.name # <<>> ->
           [a EXCEPT !.function_calls = @ \cup {n.name}]
      [] n.kind = "Attribute" ->
           [a EXCEPT !.attribute_accesses = @ \cup {n.name}]
      [] OTHER -> a

\* NodeVisitor.visit over a sequence of nodes, children after each node
RECURSIVE Visit(_, _)
Visit(a, nodes) ==
    IF nodes = <<>> THEN a
    ELSE Visit(Visit(VisitNode(a, Head(nodes)), Head(nodes).sub), Tail(nodes))

\* a report read before the tree is visited
ReportedStateStale(before, after) == before
\* the analyzer state the report of a successful analysis is read from
ReportedState(before, after) == after

\* the dict analyze returns; the three lists are given as their element sets
Report(a, syntax_error) ==
    [safe |-> TRUE, violations |-> <<>>,
     syntax_error |-> syntax_error,
     imports |-> a.imports,
     function_calls |-> a.function_calls,
     attribute_accesses |-> a.attribute_accesses,
     risk_level |-> "none", recommendations |-> <<>>]

\* analyze (lines 91-118): the analyzer afterwards and the report returned
AnalyzeOn(a, text) ==
    IF ParseFails(text)
    THEN [analyzer |-> a, report |-> Report(NewAnalyzer, "invalid syntax")]
    ELSE [analyzer |-> Visit(a, text),
          report |-> Report(ReportedState(a, Visit(a, text)), Absent)]

Analyze(text) ==
    /\ Len(reports) < MaxAnalyses
    /\ analyzer' = AnalyzeOn(analyzer, text).analyzer
    /\ reports' = <<[text |-> text,
                     report |-> AnalyzeOn(analyzer, text).report]>> \o reports
    /\ UNCHANGED <<guardVars, executorVars>>

AnalyzerNext == \E text \in AnalyzerTexts : Analyze(text)

AnalyzerSpec == Init /\ [][AnalyzerNext]_vars

\* ------------------------------------------------------------ properties
Done(t) == th[t].pc = "done"
Returned(t) == Done(t) /\ th[t].ret.kind = "dict"
IsFailure(t) == Returned(t) /\ ~th[t].ret.success
IsSuccess(t) == Returned(t) /\ th[t].ret.success
\* the locals of the run of caller t
RunLocals(t) == heap[th[t].safe_locals]
\* a text made of whitespace only (the empty text included)
AllBlank(text) == \A i \in 1..Len(text) : text[i] \in {SP, NL}

\* C1: every call returns an outcome; a failure at any step is returned as a
\* Failure with an error kind and a message, and no exception leaves
\* execute_code.
C1_NoExceptionPropagates ==
    \A t \in Callers :
        Done(t) =>
            /\ th[t].ret.kind = "dict"
            /\ (~th[t].ret.success =>
                   {"success", "error", "message"} \subseteq th[t].ret.keys)

\* C2: a call whose snippet loops forever eventually returns a Failure of
\* kind TimeoutError, its elapsed time within one second of the ceiling.
Looping(t) ==
    /\ th[t].pc = "exec"
    /\ th[t].compiled_code[th[t].ip].op = "loop"
TimedOut(t) ==
    /\ IsFailure(t)
    /\ th[t].ret.error = "TimeoutError"
    /\ th[t].ret.execution_time <= engine.max_execution_time + 1
C2_InfiniteLoopTimesOut ==
    \A t \in Callers : Looping(t) ~> TimedOut(t)

\* C3: an empty or whitespace-only text is answered with EmptyCode, and the
\* security check, the preprocessing and the namespace construction are
\* never invoked for it.
C3_EmptyCodeRejectedFirst ==
    \A t \in Callers :
        (th[t].pc # "idle" /\ th[t].code.type = "str"
           /\ AllBlank(th[t].code.text)) =>
            /\ th[t].steps = {}
            /\ th[t].pc \in {"validate", "done"}
            /\ Done(t) => IsFailure(t) /\ th[t].ret.error = "EmptyCode"
C3_Witness ==
    \E t \in Callers :
        /\ Done(t)
        /\ th[t].code = PyStr(<<NL, SP>>)
        /\ th[t].ret.error = "EmptyCode"
        /\ th[t].steps = {}

\* C4: the kind of every Failure is one of the thirteen kinds of the fixed
\* taxonomy.
Taxonomy ==
    {"EmptyCode", "SyntaxError", "NameError", "KeyError", "AttributeError",
     "ImportError", "ValueError", "TypeError", "IndexError", "TimeoutError",
     "MemoryLimitError", "PolicyViolation", "RuntimeError"}
C4_FailureKindInTaxonomy ==
    \A t \in Callers : IsFailure(t) => th[t].ret.error \in Taxonomy

\* C5: every Failure carries kind, message, elapsed time, output so far,
\* suggestion and trace.
FailureFields ==
    {"error", "message", "execution_time", "output", "suggestion",
     "traceback"}
C5_FailureCarriesAllFields ==
    \A t \in Callers : IsFailure(t) => FailureFields \subseteq th[t].ret.keys

RanToCompletion(t) ==
    /\ Done(t)
    /\ th[t].exc = "none"
    /\ th[t].ip = Len(th[t].compiled_code) + 1
    /\ th[t].compiled_code # <<>>
C7_WitnessNoResult ==
    \E t \in Callers :
        /\ RanToCompletion(t)
        /\ RESULT \notin Keys(RunLocals(t))
        /\ IsSuccess(t)
        /\ th[t].ret.result = None

\* C8: final_locals of a Success holds no name that begins with an
\* underscore and holds every other name bound in the run's locals.
C8_FinalLocalsPublicOnly ==
    \A t \in Callers :
        IsSuccess(t) =>
            \A k \in Names :
                th[t].ret.locals[k] =
                   (IF k[1] = "_" THEN Absent ELSE RunLocals(t)[k])
C8_Witness ==
    \E t \in Callers :
        /\ IsSuccess(t)
        /\ PRIVATE_T \in Keys(RunLocals(t))
        /\ X \in Keys(th[t].ret.locals)
        /\ PRIVATE_T \notin Keys(th[t].ret.locals)

\* C9: the caller's context mapping keeps exactly its bindings whatever the
\* runs bind, rebind or delete, and every run starts from the original
\* context.
C9_ContextNeverMutated ==
    /\ \A c \in CtxIds : heap[c] = InitialContext(c)
    /\ \A t \in Callers :
          th[t].pc = "redirect_stdout" =>
              RunLocals(t) = StartingLocals(th[t].context)
C9_Witness ==
    \E t \in Callers :
        /\ calls = MaxCalls
        /\ Done(t)
        /\ th[t].context = "c1"
        /\ th[t].safe_locals # "unbound"
        /\ X \notin Keys(RunLocals(t))
        /\ RESULT \in Keys(RunLocals(t))
        /\ heap["c1"] = InitialContext("c1")

\* C10: a run writes no process-wide or engine-wide variable: the process's
\* output stream bindings and the engine are left as they are by every step.
C10_NoSharedStateWritten ==
    [][/\ sys_stdout' = sys_stdout
       /\ sys_stderr' = sys_stderr
       /\ engine' = engine]_vars

\* C11: the elapsed time of every outcome is non-negative and at most the
\* time ceiling plus one second of slop, also for a snippet that runs
\* longer than the ceiling and then finishes on its own.
C11_ElapsedWithinCeiling ==
    \A t \in Callers :
        (Returned(t) /\ "execution_time" \in th[t].ret.keys) =>
            /\ th[t].ret.execution_time >= 0
            /\ th[t].ret.execution_time <= engine.max_execution_time + 1


\* C12: check_memory_usage raises MemoryLimitError to its caller exactly
\* when the sampled usage is strictly greater than 1.5 times the ceiling,
\* and the error carries the ceiling and the usage in megabytes.
C12_MemoryCheckRaisesOverCeiling ==
    mon.memory.checked =>
        /\ (mon.memory.raised = "MemoryLimitError") <=>
               OverHardCeiling(mon.memory.usage_bytes, monitor.max_memory)
        /\ mon.memory.raised = "MemoryLimitError" =>
               /\ mon.memory.limit_mb = max_memory_mb
               /\ mon.memory.usage_mb =
                      mon.memory.usage_bytes \div (1024 * 1024)

\* C13: once the guard scope has been left, however the protected region
\* ended, no alarm is armed.
C13_NoAlarmAfterExit ==
    mon.pc \in {"exited", "outside"} => sig.alarm = 0
\* the scope was left after the deadline aborted the protected region
C13_WitnessDeadline ==
    /\ mon.pc = "exited"
    /\ mon.exc = "ExecutionTimeoutError"
    /\ monitor.timeout_occurred
    /\ sig.handler = "SIG_DFL"
\* the scope was left after the protected region raised with the timer
\* still running
C13_Witness ==
    /\ mon.pc = "exited"
    /\ mon.exc = "ValueError"
    /\ ~monitor.timeout_occurred

\* the error kinds execute_code reports for the exceptions the guard raises
GuardKinds == {ErrorKind("ExecutionTimeoutError"), ErrorKind("MemoryLimitError")}

\* C14: no exception raised by the snippet itself produces a Failure whose
\* kind is one reported for a guard-raised deadline or memory-limit abort.
C14_GuardKindsNotForgeable ==
    \A t \in Callers :
        (IsFailure(t) /\ th[t].exc # "none" /\ "error" \in th[t].ret.keys) =>
            th[t].ret.error \notin GuardKinds

\* C15: two analyze calls in succession on the same text, on the same
\* analyzer, return identical reports.
C15_AnalyzeTwiceSameReport ==
    \A i \in 1..(Len(reports) - 1) :
        reports[i].text = reports[i + 1].text =>
            reports[i].report = reports[i + 1].report
\* the same text analysed twice in a row, after another text, with names
\* collected
C15_Witness ==
    /\ Len(reports) = 3
    /\ reports[1].text = reports[2].text
    /\ reports[3].text # reports[2].text
    /\ reports[1].text = <<FROM_NP, CALL_LEN>>
    /\ reports[1].report.function_calls # {}

\* the report a freshly constructed analyzer returns for a text
FreshReport(text) == AnalyzeOn(NewAnalyzer, text).report

\* C16: the report analyze returns for a text equals the report of a fresh
\* analyzer for that text, whatever was analysed before.
C16_AnalyzeIsPure ==
    \A i \in 1..Len(reports) :
        reports[i].report = FreshReport(reports[i].text)

\* the namespace of the call of caller t has been built and the snippet has
\* not started yet
HandedOver(t) == th[t].pc \in {"redirect_stdout", "redirect_stderr", "compile"}
IsPrivate(n) == StartsWith(n, <<"_">>)

\* C17: when the namespace is handed to the snippet neither its globals nor
\* its locals hold a name that begins with the private prefix, whatever the
\* context held, and a snippet that reads such a name fails with NameError.
C17_NoPrivateNameInNamespace ==
    \A t \in Callers :
        /\ HandedOver(t) =>
              \A n \in Keys(RunLocals(t)) \cup th[t].safe_globals.globals :
                  ~IsPrivate(n)
        /\ (Returned(t) /\ th[t].code = PyStr(<<READ_PRIV>>)) =>
              (IsFailure(t) /\ th[t].ret.error = "NameError")

\* C18: the builtins reachable from the globals built for a run are names
\* of the engine's allow-list, and the other globals are allow-listed
\* modules.
C18_OnlyAllowListedGlobals ==
    \A t \in Callers :
        HandedOver(t) =>
            /\ th[t].safe_globals.builtins \subseteq engine.safe_builtins
            /\ th[t].safe_globals.globals \ {BUILTINS_KEY}
                  \subseteq engine.safe_modules

\* C19: a call that gets past validation has the analyzer invoked on its
\* code when enable_ast_analysis is true, and not when it is false.
C19_AnalysisFlagHonored ==
    \A t \in Callers :
        (Returned(t) /\ "security" \in th[t].steps) =>
            (engine.enable_ast_analysis <=>
                ("analyze" \in th[t].steps /\ reports # <<>>))

\* C20: a call compiles and runs at most two texts, the preprocessed one
\* first; the original is tried second exactly when the first attempt raised
\* and the two texts differ, and a call whose last attempt raised returns a
\* Failure.
C20_OneShotFallback ==
    \A t \in Callers :
        /\ Len(th[t].texts) <= 2
        /\ Len(th[t].texts) >= 1 => th[t].texts[1] = th[t].processed_code
        /\ Len(th[t].texts) = 2 => th[t].texts[2] = th[t].code.text
        /\ (Done(t) /\ Len(th[t].texts) >= 1) =>
              /\ (Len(th[t].texts) = 2) <=>
                    /\ th[t].first_exc # "none"
                    /\ th[t].processed_code # th[t].code.text
              /\ (Len(th[t].texts) = 2 /\ th[t].exc # "none") => IsFailure(t)

\* no call is in progress
AllIdle == \A t \in Callers : th[t].pc = "idle"
\* the configuration fixed by the constructor
ConfigAsConstructed ==
    /\ engine.max_memory_mb = max_memory_mb
    /\ engine.max_execution_time = max_execution_time
    /\ engine.enable_string_validation
    /\ engine.safe_builtins = safe_builtins
    /\ engine.safe_modules = safe_modules
\* execute_code leaves the engine's own attributes alone
C21_ConfigUnchanged == [][engine' = engine]_vars

\* C21: between calls everything a later call can read is as it was when the
\* engine was constructed (configuration, module table and its modules,
\* standard streams, the callers' mappings), so a call has the outcome it
\* has as first call of a new engine: result = pd.x fails with
\* AttributeError.
C21_NoStateAcrossCalls ==
    /\ AllIdle =>
          /\ ConfigAsConstructed
          /\ sys_stdout = Console /\ sys_stderr = Console
          /\ \A c \in CtxIds : heap[c] = InitialContext(c)
          /\ \A m \in ModuleIds : heap[m] = EmptyDict
    /\ \A t \in Callers :
          (Returned(t) /\ th[t].code = PyStr(<<GET_ATTR>>)) =>
              (IsFailure(t) /\ th[t].ret.error = "AttributeError")

\* the call of caller t made the fallback
Retried(t) == th[t].attempt = 2
\* the names the first attempt had bound or rebound when it failed
MadeByFirst(t) ==
    {n \in Names :
        /\ th[t].first_locals[n] # Absent
        /\ th[t].first_locals[n] # StartingLocals(th[t].context)[n]}
\* the retry has a `del n`
DeletedByRetry(t, n) ==
    \E i \in 1..Len(th[t].compiled_code) :
        th[t].compiled_code[i] = Stmt("del", n, "")

C23_StreamsRestoredOutputOwn ==
    /\ AllIdle => (sys_stdout = Console /\ sys_stderr = Console)
    /\ \A t \in Callers :
          (Returned(t) /\ "output" \in th[t].ret.keys) =>
              StartsWith(th[t].written, th[t].ret.output)

====
